---- MODULE Spec2Model ----
(***************************************************************************)
(* A model of the passkey demo: the WebAuthn ceremony driver               *)
(* (loginOrRegisterWithWebAuthn, toWebAuthnKey), the passkey validator     *)
(* adapters (toPasskeyValidator, deserializePasskeyValidator) and the      *)
(* page's click handlers (handleRegister, handleLogin).                    *)
(*                                                                         *)
(* Three specifications share the module:                                  *)
(*   Spec         one call of toWebAuthnKey, step by step at its awaits    *)
(*   SpecAdapter  adapters being built and used while the chain changes    *)
(*   SpecPage     the page: clicks interleaved with the handlers' awaits   *)
(***************************************************************************)
EXTENDS Integers, Sequences, FiniteSets, TLC

VARIABLES
    \* ---- toWebAuthnKey / loginOrRegisterWithWebAuthn (one call) ----
    mode,            \* WebAuthnMode of the call
    webAuthnKey,     \* the optional webAuthnKey argument
    pc,              \* where the call is suspended
    startOptions,    \* loginOptions / registerOptions (the start response's JSON)
    cred,            \* loginCred / registerCred (what the authenticator returned)
    credId,          \* the local credId
    verifyResult,    \* loginVerifyResult / registerVerifyResult
    ceremonyResult,  \* what loginOrRegisterWithWebAuthn returned
    key,             \* what toWebAuthnKey returned
    error,           \* the error the call threw
    trace,           \* the fetches and authenticator invocations, in order
    \* ---- adapters ----
    clientChain,     \* the chain id the network client answers getChainId with
    adapters,        \* the adapters built so far
    call,            \* the adapter operation in flight or last finished
    httpCalls,       \* HTTP requests made by adapter operations
    authCalls,       \* authenticator invocations made by adapter operations
    \* ---- page ----
    isRegistering,
    isLoggingIn,
    isKernelClientReady,
    accountAddress,
    kernelAccount,
    kernelClient,
    paymasterClient,
    handlers,        \* the invocations of handleRegister / handleLogin
    sessions,        \* how many runs of createAccountAndClient have started
    \* ---- page: the balance and its polling effect ----
    view,            \* "mounted" or "unmounted"
    balance,
    balanceDecimals,
    balanceFetched,
    balanceOwner,    \* the address the balance held was queried for
    timers,          \* the active intervals, each with the state it closed over
    effectDeps,      \* the dependencies the effect last ran with
    balanceQueries,  \* the addresses of the getBalance calls in flight
    lastTick,        \* what the last tick of an interval did
    \* ---- page: handleSendUserOp ----
    isSendingUserOp,
    sendOp           \* the invocation of handleSendUserOp in flight or last ended

ceremonyVars ==
    <<mode, webAuthnKey, pc, startOptions, cred, credId, verifyResult,
      ceremonyResult, key, error, trace>>

adapterVars == <<clientChain, adapters, call, httpCalls, authCalls>>

pollVars ==
    <<view, balance, balanceDecimals, balanceFetched, balanceOwner, timers,
      effectDeps, balanceQueries, lastTick>>

sendVars == <<isSendingUserOp, sendOp>>

pageVars ==
    <<isRegistering, isLoggingIn, isKernelClientReady, accountAddress,
      kernelAccount, kernelClient, paymasterClient, handlers, sessions,
      pollVars, sendVars>>

vars == <<ceremonyVars, adapterVars, pageVars>>

(***************************************************************************)
(* Bounds                                                                  *)
(***************************************************************************)
\* Longest hex string (digits after "0x") a server sends as a coordinate.
MaxHexLen == 2
\* Adapters built in one run.
MaxAdapters == 2
\* Authenticator invocations by adapter operations in one run.
MaxAuthCalls == 2
\* Handler invocations that may be in flight together on the page.
MaxHandlers == 2
\* Clicks on Register and Login in one run.
MaxClicks == 3
\* getBalance calls that may be in flight together.
MaxInFlight == 1

(***************************************************************************)
(* JavaScript values.  Every value is a record with a tag, so that values  *)
(* of different types compare as unequal.                                  *)
(***************************************************************************)
Undefined == [tag |-> "undefined"]
Null == [tag |-> "null"]
Bool(b) == [tag |-> "boolean", val |-> b]
\* A string "0x" followed by the hex digits ds.
HexStr(ds) == [tag |-> "string", kind |-> "hex", body |-> ds]
\* A string of base64url characters, given by their 6-bit values.
B64Str(ss) == [tag |-> "string", kind |-> "b64", body |-> ss]
\* The empty string.
EmptyString == B64Str(<<>>)
\* A string that is neither of the above, named by its text.
Text(t) == [tag |-> "string", kind |-> "text", body |-> <<t>>]
\* An object known only by its identity.
Obj(name) == [tag |-> "object", name |-> name]

\* JS truthiness, as `!x` tests it.
Truthy(v) == v \notin {Undefined, Null, EmptyString, Bool(FALSE)}

(***************************************************************************)
(* Conversions                                                             *)
(***************************************************************************)
RECURSIVE DigitsToNat(_, _)
\* The number a digit string denotes in the given base, most significant first.
DigitsToNat(ds, base) ==
    IF ds = <<>> THEN 0
    ELSE DigitsToNat(SubSeq(ds, 1, Len(ds) - 1), base) * base + ds[Len(ds)]

RECURSIVE Pow(_, _)
Pow(b, e) == IF e = 0 THEN 1 ELSE b * Pow(b, e - 1)

RECURSIVE NatToBytes(_, _)
\* The k low bytes of n, most significant first.
NatToBytes(n, k) ==
    IF k = 0 THEN <<>>
    ELSE Append(NatToBytes(n \div 256, k - 1), n % 256)

\* b64ToBytes: the bytes a base64url text decodes to.  Every character gives six
\* bits; the bits that do not fill a byte are dropped.
B64ToBytes(s) ==
    LET n == Len(s.body)
        k == (6 * n) \div 8
    IN  NatToBytes(DigitsToNat(s.body, 64) \div Pow(2, 6 * n - 8 * k), k)

RECURSIVE BytesToHexDigits(_)
BytesToHexDigits(bs) ==
    IF bs = <<>> THEN <<>>
    ELSE <<bs[1] \div 16, bs[1] % 16>> \o BytesToHexDigits(Tail(bs))

\* uint8ArrayToHexString: "0x" and two hex digits for every byte.
Uint8ArrayToHexString(bs) == HexStr(BytesToHexDigits(bs))

\* keccak256 of a hex string: an ideal hash, one digest for every byte string.
Keccak256(hex) == [tag |-> "string", kind |-> "keccak256", body |-> hex.body]

\* BigInt(v) for a string v: "0x" with at least one digit is the number, "" is 0,
\* any other text throws a SyntaxError.
BigInt(v) ==
    IF v.tag = "string" /\ v.kind = "hex" /\ Len(v.body) > 0
    THEN [ok |-> TRUE, value |-> DigitsToNat(v.body, 16)]
    ELSE IF v = EmptyString
    THEN [ok |-> TRUE, value |-> 0]
    ELSE [ok |-> FALSE, value |-> 0]

(***************************************************************************)
(* Inputs of the ceremony: what the passkey server and the authenticator   *)
(* may answer.                                                             *)
(***************************************************************************)
Modes == {"register", "login"}

passkeyName == Text("alice")

RECURSIVE SeqsUpTo(_, _)
\* The sequences over S of length at most n.
SeqsUpTo(S, n) ==
    IF n = 0 THEN {<<>>}
    ELSE LET shorter == SeqsUpTo(S, n - 1)
         IN  shorter \cup {Append(q, x) : q \in shorter, x \in S}

\* Credential ids: two-character base64url texts.  <<0, 0>> ("AA") and
\* <<0, 1>> ("AB") decode to the same byte, <<0, 16>> ("AQ") to another.
CredIdSample == {B64Str(<<0, 0>>), B64Str(<<0, 1>>), B64Str(<<0, 16>>)}

\* The hex digits the sampled coordinates are written with.
HexDigitSample == {0, 1}

\* What a server may put in a public-key field.
PublicKeySample ==
    {Undefined, EmptyString, Text("zz")}
        \cup {HexStr(ds) : ds \in SeqsUpTo(HexDigitSample, MaxHexLen)}

OptionsSample == {Undefined, Obj("optionsA"), Obj("optionsB")}
RequestIdSample == {Undefined, Text("req1"), Text("req2")}

\* The JSON of a start response: null, or an object with or without its fields.
StartResponses ==
    {Null} \cup
    {[tag |-> "object", options |-> o, requestId |-> r] :
        o \in OptionsSample, r \in RequestIdSample}

\* What the authenticator may return.
Credentials ==
    {[tag |-> "object", id |-> i] :
        i \in {Undefined, EmptyString} \cup CredIdSample}

\* The JSON of a complete response.  register/complete answers with `verified`,
\* auth/complete with `accessToken`.
CompleteResponses(m) ==
    {Null} \cup
    {[tag |-> "object", verified |-> v, accessToken |-> t,
      publicKeyX |-> x, publicKeyY |-> y, credentialId |-> c] :
        v \in (IF m = "register" THEN {Undefined, Bool(FALSE), Bool(TRUE)}
               ELSE {Undefined}),
        t \in (IF m = "login" THEN {Undefined, EmptyString, Text("token")}
               ELSE {Undefined}),
        x \in PublicKeySample, y \in PublicKeySample,
        c \in {Undefined, B64Str(<<0, 16>>)}}

\* The authenticatorIdHash toWebAuthnKey computes for a credential id.
AuthenticatorIdHash(id) == Keccak256(Uint8ArrayToHexString(B64ToBytes(id)))

\* The webAuthnKey argument: absent, a key whose hash is that of its credId, or
\* a key whose hash was made from another credential id.
WebAuthnKeySample ==
    {Undefined,
     [tag |-> "object", pubX |-> 1, pubY |-> 2, credId |-> B64Str(<<0, 16>>),
      authenticatorIdHash |-> AuthenticatorIdHash(B64Str(<<0, 16>>))],
     [tag |-> "object", pubX |-> 1, pubY |-> 2, credId |-> B64Str(<<0, 16>>),
      authenticatorIdHash |-> AuthenticatorIdHash(B64Str(<<0, 0>>))]}

(***************************************************************************)
(* loginOrRegisterWithWebAuthn and toWebAuthnKey                           *)
(***************************************************************************)
\* A local that has not been assigned yet.
NotYet == [tag |-> "pending"]

StartUrl(m) ==
    IF m = "login" THEN "/api/auth/start" ELSE "/api/users/register/start"

CompleteUrl(m) ==
    IF m = "login" THEN "/api/auth/complete" ELSE "/api/users/register/complete"

Fetch(url, body) == [ev |-> "fetch", target |-> url, payload |-> body]

SignWithAuthenticator(options) ==
    [ev |-> "signWithAuthenticator", target |-> "authenticator", payload |-> options]

\* The body of the start request.
StartBody(m) ==
    IF m = "login" THEN Undefined
    ELSE [tag |-> "object", username |-> passkeyName]

\* What the authenticator is invoked with, given the start response's JSON.
AuthenticatorArgument(options) == options.options

\* A faulty variant: the requestId of the start response is left out.
CompleteBodyNoRequestId(m, options, credential) ==
    IF m = "login"
    THEN [tag |-> "object", requestId |-> Undefined,
          authenticationResponse |-> credential]
    ELSE [tag |-> "object", requestId |-> Undefined,
          registrationResponse |-> credential]

\* The body of the complete request.
CompleteBody(m, options, credential) ==
    IF m = "login"
    THEN [tag |-> "object", requestId |-> options.requestId,
          authenticationResponse |-> credential]
    ELSE [tag |-> "object", requestId |-> options.requestId,
          registrationResponse |-> credential]

\* A faulty variant: a login response is accepted without its accessToken.
VerifyOutcomeTokenUnchecked(m, result) ==
    IF m = "login"
    THEN IF result = Null THEN "Login not verified" ELSE "none"
    ELSE IF result = Null THEN "TypeError"
         ELSE IF ~Truthy(result.verified) THEN "Registration not verified"
         ELSE "none"

\* The verification of the complete response: the error thrown, or "none".
VerifyOutcome(m, result) ==
    IF m = "login"
    THEN IF result = Null \/ ~Truthy(result.accessToken)
         THEN "Login not verified"
         ELSE "none"
    ELSE IF result = Null THEN "TypeError"
         ELSE IF ~Truthy(result.verified) THEN "Registration not verified"
         ELSE "none"

\* A faulty variant: publicKeyY is not looked at.
PresenceOutcomeXOnly(publicKeyX, publicKeyY, id) ==
    IF ~Truthy(publicKeyX)
    THEN "No public key returned from registration credential"
    ELSE IF ~Truthy(id)
    THEN "No credential id returned from registration credential"
    ELSE "none"

\* The presence checks on the three results: the error thrown, or "none".
PresenceOutcome(publicKeyX, publicKeyY, id) ==
    IF ~Truthy(publicKeyX) \/ ~Truthy(publicKeyY)
    THEN "No public key returned from registration credential"
    ELSE IF ~Truthy(id)
    THEN "No credential id returned from registration credential"
    ELSE "none"

\* loginOrRegisterWithWebAuthn from the complete response on: the error thrown
\* ("none" when it returns) and the value returned.
CeremonyOutcome(m, id, result) ==
    LET verify == VerifyOutcome(m, result)
    IN  IF verify # "none"
        THEN [error |-> verify, value |-> Undefined]
        ELSE LET presence ==
                     PresenceOutcome(result.publicKeyX, result.publicKeyY, id)
             IN  IF presence # "none"
                 THEN [error |-> presence, value |-> Undefined]
                 ELSE [error |-> "none",
                       value |-> [tag |-> "object",
                                  publicKeyX |-> result.publicKeyX,
                                  publicKeyY |-> result.publicKeyY,
                                  credId |-> id]]

\* A faulty variant: the two coordinates are swapped.
WebAuthnKeyOfSwapped(r) ==
    [tag |-> "object",
     pubX |-> BigInt(r.publicKeyY).value,
     pubY |-> BigInt(r.publicKeyX).value,
     credId |-> r.credId,
     authenticatorIdHash |-> AuthenticatorIdHash(r.credId)]

\* The WebAuthnKey toWebAuthnKey builds from a ceremony's result (the two
\* BigInt calls have succeeded).
WebAuthnKeyOf(r) ==
    [tag |-> "object",
     pubX |-> BigInt(r.publicKeyX).value,
     pubY |-> BigInt(r.publicKeyY).value,
     credId |-> r.credId,
     authenticatorIdHash |-> AuthenticatorIdHash(r.credId)]

InitCeremony ==
    /\ mode \in Modes
    /\ webAuthnKey \in WebAuthnKeySample
    /\ pc = "called"
    /\ startOptions = NotYet
    /\ cred = NotYet
    /\ credId = Undefined
    /\ verifyResult = NotYet
    /\ ceremonyResult = Undefined
    /\ key = Undefined
    /\ error = "none"
    /\ trace = <<>>

Throw(e) ==
    /\ pc' = "failed"
    /\ error' = e

\* toWebAuthnKey with a webAuthnKey argument returns it.
ReturnGivenKey ==
    /\ pc = "called"
    /\ Truthy(webAuthnKey)
    /\ key' = webAuthnKey
    /\ pc' = "returned"
    /\ UNCHANGED <<mode, webAuthnKey, startOptions, cred, credId, verifyResult,
                   ceremonyResult, error, trace>>

\* Without one it calls loginOrRegisterWithWebAuthn, which POSTs to the start
\* endpoint and awaits the response.
PostStart ==
    /\ pc = "called"
    /\ ~Truthy(webAuthnKey)
    /\ trace' = Append(trace, Fetch(StartUrl(mode), StartBody(mode)))
    /\ pc' = "awaitStart"
    /\ UNCHANGED <<mode, webAuthnKey, startOptions, cred, credId, verifyResult,
                   ceremonyResult, key, error>>

\* A faulty variant: a failed start request is sent again.
StartFailsRetried ==
    /\ pc = "awaitStart"
    /\ Len(trace) < 3
    /\ trace' = Append(trace, Fetch(StartUrl(mode), StartBody(mode)))
    /\ UNCHANGED <<mode, webAuthnKey, pc, startOptions, cred, credId,
                   verifyResult, ceremonyResult, key, error>>

\* The start request fails (fetch or json() rejects).
StartFails ==
    /\ pc = "awaitStart"
    /\ Throw("NetworkFailure")
    /\ UNCHANGED <<mode, webAuthnKey, startOptions, cred, credId, verifyResult,
                   ceremonyResult, key, trace>>

\* The start response arrives: the authenticator is invoked with its options.
StartArrives ==
    /\ pc = "awaitStart"
    /\ \E response \in StartResponses :
        /\ startOptions' = response
        /\ IF response = Null
           THEN Throw("TypeError") /\ UNCHANGED trace
           ELSE /\ trace' = Append(trace,
                        SignWithAuthenticator(AuthenticatorArgument(response)))
                /\ pc' = "awaitAuthenticator"
                /\ UNCHANGED error
    /\ UNCHANGED <<mode, webAuthnKey, cred, credId, verifyResult,
                   ceremonyResult, key>>

\* The authenticator rejects (the user cancels, no credential matches).
AuthenticatorRejects ==
    /\ pc = "awaitAuthenticator"
    /\ Throw("AuthenticatorRejected")
    /\ UNCHANGED <<mode, webAuthnKey, startOptions, cred, credId, verifyResult,
                   ceremonyResult, key, trace>>

\* The authenticator returns a credential: its id is kept and the complete
\* endpoint is POSTed.
AuthenticatorReturns ==
    /\ pc = "awaitAuthenticator"
    /\ \E credential \in Credentials :
        /\ cred' = credential
        /\ credId' = credential.id
        /\ trace' = Append(trace,
                Fetch(CompleteUrl(mode), CompleteBody(mode, startOptions, credential)))
    /\ pc' = "awaitComplete"
    /\ UNCHANGED <<mode, webAuthnKey, startOptions, verifyResult,
                   ceremonyResult, key, error>>

\* The complete request fails.
CompleteFails ==
    /\ pc = "awaitComplete"
    /\ Throw("NetworkFailure")
    /\ UNCHANGED <<mode, webAuthnKey, startOptions, cred, credId, verifyResult,
                   ceremonyResult, key, trace>>

\* The complete response arrives: loginOrRegisterWithWebAuthn checks it and
\* returns or throws, and toWebAuthnKey builds the key from what it returned.
CompleteArrives ==
    /\ pc = "awaitComplete"
    /\ \E response \in CompleteResponses(mode) :
        LET outcome == CeremonyOutcome(mode, credId, response)
        IN  /\ verifyResult' = response
            /\ ceremonyResult' = outcome.value
            /\ IF outcome.error # "none"
               THEN Throw(outcome.error) /\ UNCHANGED key
               ELSE IF ~BigInt(outcome.value.publicKeyX).ok
                       \/ ~BigInt(outcome.value.publicKeyY).ok
               THEN Throw("SyntaxError") /\ UNCHANGED key
               ELSE /\ key' = WebAuthnKeyOf(outcome.value)
                    /\ pc' = "returned"
                    /\ UNCHANGED error
    /\ UNCHANGED <<mode, webAuthnKey, startOptions, cred, credId, trace>>

(***************************************************************************)
(* Adapters: toPasskeyValidator and deserializePasskeyValidator            *)
(***************************************************************************)
AdapterIds == 1..MaxAdapters

\* sepolia (the page's chain) and a chain of the RIP-7212 allow-list.
ChainSample == {11155111, 137}

\* The chains with a P-256 precompile: a static allow-list.
RIP7212SupportedNetworks == {80001, 137}

IsRIP7212SupportedNetwork(chainId) == chainId \in RIP7212SupportedNetworks

ENTRYPOINT_ADDRESS_V06 == Text("0x5FF137D4b0FDCD49DcA30c7CF57E578a026d2789")

ENTRYPOINT_ADDRESS_V07 == Text("0x0000000071727De22E5E9d8BAf0edAc6f37da032")

\* The entry points a caller may hand to deserializePasskeyValidator.
EntryPointSample == {ENTRYPOINT_ADDRESS_V06, ENTRYPOINT_ADDRESS_V07}

\* The passkey server the adapters are built for.
passkeyServerUrl == Text("https://passkeys.example/api/v3/project")

\* getValidatorAddress: the validator deployed for an entry point.
GetValidatorAddress(entryPoint) ==
    [tag |-> "string", kind |-> "validatorAddress", body |-> entryPoint.body]

\* The custom nonce keys handed to getNonceKey; 0 is also the absent key.
NonceKeySample == {0, 5}

\* The keys adapters are built from: toWebAuthnKey's results.
AdapterKeySample == WebAuthnKeySample \ {Undefined}

\* The order of the curve's group, scaled down: the signatures' s ranges over
\* 1..CurveOrder - 1.
CurveOrder == 7

\* parseAndNormalizeSig: r as it is, s brought to the lower half of the order.
ParseAndNormalizeSig(signature) ==
    [r |-> signature.r,
     s |-> IF signature.s > CurveOrder \div 2
           THEN CurveOrder - signature.s
           ELSE signature.s]

\* What the authenticator may answer to an assertion request: s at both ends
\* of the range and on both sides of the middle of the order.
AssertionSample ==
    {[authenticatorData |-> "authData", clientDataJSON |-> "clientData",
      beforeType |-> 1, signature |-> [r |-> rv, s |-> sv]] :
        rv \in {CurveOrder - 2},
        sv \in {1, CurveOrder \div 2, CurveOrder \div 2 + 1, CurveOrder - 1}}

\* A hex string without the 0x prefix.
BareHexStr(ds) == [tag |-> "string", kind |-> "barehex", body |-> ds]

\* A Uint8Array of the given bytes.
Uint8Array(bs) == [tag |-> "Uint8Array", bytes |-> bs]

\* Messages handed to signMessage.  Four denote the one byte 0x10: a hex
\* string with and without the 0x prefix, an object with a hex `raw` and an
\* object with a byte-array `raw`.  Two have no supported shape: an object
\* without `raw` and an object whose `raw` is a number.
MessageSample ==
    {HexStr(<<1, 0>>),
     BareHexStr(<<1, 0>>),
     [tag |-> "object", raw |-> HexStr(<<1, 0>>)],
     [tag |-> "object", raw |-> Uint8Array(<<16>>)],
     [tag |-> "object", name |-> "noRaw"],
     [tag |-> "object", raw |-> [tag |-> "number", value |-> 16]]}

\* User operations: two that differ in the signature field only, and a third.
UserOperationSample ==
    {[callData |-> "callA", signature |-> "0x"],
     [callData |-> "callA", signature |-> "0xsigned"],
     [callData |-> "callB", signature |-> "0x"]}

\* Transactions handed to signTransaction.
TransactionSample ==
    {[tag |-> "object", to |-> "0xdest", value |-> v] : v \in {0, 1}}

\* Typed-data documents: one validateTypedData accepts and one it rejects.
TypedDataSample ==
    {[document |-> "mail", valid |-> TRUE],
     [document |-> "dangling", valid |-> FALSE]}

\* getUserOperationHash: an ideal hash of the operation it is given, the entry
\* point and the chain id.
GetUserOperationHash(userOperation, entryPoint, chainId) ==
    [tag |-> "string", kind |-> "hash",
     body |-> <<userOperation, entryPoint, chainId>>]

\* hashTypedData: an ideal hash of the document.
HashTypedData(typedData) ==
    [tag |-> "string", kind |-> "hash", body |-> <<typedData.document>>]

RECURSIVE DecimalDigits(_)
\* The decimal digits of a number, most significant first.
DecimalDigits(n) ==
    IF n < 10 THEN <<n>> ELSE Append(DecimalDigits(n \div 10), n % 10)

\* The character "," in a text given by its digits.
Comma == 44

RECURSIVE JoinDecimal(_)
\* The digits of the bytes in decimal, joined by commas.
JoinDecimal(bs) ==
    IF bs = <<>> THEN <<>>
    ELSE IF Len(bs) = 1 THEN DecimalDigits(bs[1])
    ELSE DecimalDigits(bs[1]) \o <<Comma>> \o JoinDecimal(Tail(bs))

\* Uint8Array.prototype.toString: the bytes in decimal, joined by commas.  The
\* text has no 0x prefix.
Uint8ArrayToString(array) == BareHexStr(JoinDecimal(array.bytes))

\* A faulty variant: a message of no supported shape is read as the empty
\* text.
MessageContentLenient(message) ==
    IF message.tag = "string" THEN message
    ELSE IF "raw" \in DOMAIN message /\ message.raw.tag = "string"
    THEN message.raw
    ELSE IF "raw" \in DOMAIN message /\ message.raw.tag = "Uint8Array"
    THEN Uint8ArrayToString(message.raw)
    ELSE BareHexStr(<<>>)

\* The text signMessageUsingWebAuthn reads out of a message, or Undefined for
\* a message of no supported shape.
MessageContent(message) ==
    IF message.tag = "string" THEN message
    ELSE IF "raw" \in DOMAIN message /\ message.raw.tag = "string"
    THEN message.raw
    ELSE IF "raw" \in DOMAIN message /\ message.raw.tag = "Uint8Array"
    THEN Uint8ArrayToString(message.raw)
    ELSE Undefined

\* The text with its 0x prefix, if it has one, removed.
FormattedMessage(messageContent) ==
    IF messageContent.kind = "hex"
    THEN BareHexStr(messageContent.body)
    ELSE messageContent

RECURSIVE HexDigitsToBytes(_)
HexDigitsToBytes(ds) ==
    IF Len(ds) < 2 THEN <<>>
    ELSE <<ds[1] * 16 + ds[2]>> \o HexDigitsToBytes(Tail(Tail(ds)))

\* hexStringToUint8Array: one byte for every two hex digits.
HexStringToUint8Array(hex) == HexDigitsToBytes(hex.body)

RECURSIVE FixedDigits(_, _, _)
\* The k low digits of n in the given base, most significant first.
FixedDigits(n, base, k) ==
    IF k = 0 THEN <<>>
    ELSE Append(FixedDigits(n \div base, base, k - 1), n % base)

\* base64FromArrayBuffer(bytes, true): the unpadded base64url text of the
\* bytes, six bits a character, the last character filled with zero bits.
Base64FromArrayBuffer(bytes) ==
    LET n == Len(bytes)
        k == (8 * n + 5) \div 6
    IN  B64Str(FixedDigits(DigitsToNat(bytes, 256) * Pow(2, 6 * k - 8 * n),
                           64, k))

\* The challenge: the base64url text of the bytes the hex text (its 0x prefix
\* removed) denotes.  A hash stands for 32 bytes that are not spelled out and
\* its challenge for their encoding.
ChallengeOf(messageContent) ==
    IF messageContent.kind = "hash"
    THEN [tag |-> "string", kind |-> "base64url", body |-> messageContent.body]
    ELSE Base64FromArrayBuffer(
            HexStringToUint8Array(FormattedMessage(messageContent)))

\* The assertion options signMessageUsingWebAuthn builds.
AssertionOptions(messageContent, allowCredentials) ==
    [challenge |-> ChallengeOf(messageContent),
     allowCredentials |-> allowCredentials,
     userVerification |-> "required"]

\* A faulty variant: the authenticator's signature is encoded as it came.
EncodedSignatureRaw(assertion, chainId) ==
    [authenticatorData |-> assertion.authenticatorData,
     clientDataJSON |-> assertion.clientDataJSON,
     responseTypeLocation |-> assertion.beforeType,
     r |-> assertion.signature.r,
     s |-> assertion.signature.s,
     usePrecompiled |-> IsRIP7212SupportedNetwork(chainId)]

\* The encoded signature: the tuple given to encodeAbiParameters.
EncodedSignature(assertion, chainId) ==
    [authenticatorData |-> assertion.authenticatorData,
     clientDataJSON |-> assertion.clientDataJSON,
     responseTypeLocation |-> assertion.beforeType,
     r |-> ParseAndNormalizeSig(assertion.signature).r,
     s |-> ParseAndNormalizeSig(assertion.signature).s,
     usePrecompiled |-> IsRIP7212SupportedNetwork(chainId)]

\* getDummySignature of an adapter built by toPasskeyValidator.
DummySignature ==
    [authenticatorData |->
        "0x49960de5880e8c687434170f6476605b8fe4aeb9a28632c7995cf3ba831d97631d00000000",
     clientDataJSON |->
        "{\"type\":\"webauthn.get\",\"challenge\":\"tbxXNFS9X_4Byr1cMwqKrIGB-_30a0QhZ6y7ucM0BOE\",\"origin\":\"http://localhost:3000\",\"crossOrigin\":false}",
     responseTypeLocation |-> 0,
     r |-> "44941127272049826721201904734628716258498742255959991581049806490182030242267",
     s |-> "9910254599581058084911561569808925251374718953855182016200087235935345969636",
     usePrecompiled |-> FALSE]

\* getDummySignature of an adapter built by deserializePasskeyValidator.
DeserializedDummySignature ==
    [authenticatorData |->
        "0x49960de5880e8c687434170f6476605b8fe4aeb9a28632c7995cf3ba831d97631d00000000",
     clientDataJSON |->
        "{\"type\":\"webauthn.get\",\"challenge\":\"tbxXNFS9X_4Byr1cMwqKrIGB-_30a0QhZ6y7ucM0BOE\",\"origin\":\"http://localhost:3000\",\"crossOrigin\":false}",
     responseTypeLocation |-> 1,
     r |-> "44941127272049826721201904734628716258498742255959991581049806490182030242267",
     s |-> "9910254599581058084911561569808925251374718953855182016200087235935345969636",
     usePrecompiled |-> FALSE]

\* getEnableData: the tuple given to encodeAbiParameters.
GetEnableData(a) ==
    [x |-> adapters[a].pubKeyX, y |-> adapters[a].pubKeyY,
     authenticatorIdHash |-> adapters[a].authenticatorIdHash]

\* serializePasskeyValidatorData of what getSerializedData hands it, and
\* deserializePasskeyValidatorData of the result.
SerializePasskeyValidatorData(fields) ==
    [tag |-> "string", kind |-> "serialized", body |-> <<fields>>]

DeserializePasskeyValidatorData(serializedData) == serializedData.body[1]

\* A faulty variant: the coordinates are written under each other's name.
GetSerializedDataSwapped(a) ==
    SerializePasskeyValidatorData(
        [passkeyServerUrl |-> adapters[a].passkeyServerUrl,
         credentials |-> adapters[a].credentials,
         entryPoint |-> adapters[a].serializedEntryPoint,
         validatorAddress |-> adapters[a].validatorAddress,
         pubKeyX |-> adapters[a].pubKeyY,
         pubKeyY |-> adapters[a].pubKeyX,
         credId |-> adapters[a].credId,
         authenticatorIdHash |-> adapters[a].authenticatorIdHash])

\* getSerializedData: the configuration handed to
\* serializePasskeyValidatorData.
GetSerializedData(a) ==
    SerializePasskeyValidatorData(
        [passkeyServerUrl |-> adapters[a].passkeyServerUrl,
         credentials |-> adapters[a].credentials,
         entryPoint |-> adapters[a].serializedEntryPoint,
         validatorAddress |-> adapters[a].validatorAddress,
         pubKeyX |-> adapters[a].pubKeyX,
         pubKeyY |-> adapters[a].pubKeyY,
         credId |-> adapters[a].credId,
         authenticatorIdHash |-> adapters[a].authenticatorIdHash])

\* No adapter in the slot.
NoAdapter ==
    [state |-> "absent", builder |-> "none", from |-> 0,
     chainId |-> 0, getChainIdCalls |-> 0,
     passkeyServerUrl |-> Undefined, credentials |-> Undefined,
     entryPoint |-> Undefined, serializedEntryPoint |-> Undefined,
     validatorAddress |-> Undefined, pubKeyX |-> 0, pubKeyY |-> 0, credId |-> Undefined,
     authenticatorIdHash |-> Undefined]

\* No operation called yet.
NoCall ==
    [op |-> "none", adapter |-> 0, pc |-> "idle", input |-> Undefined,
     hash |-> Undefined, options |-> Undefined, invoked |-> 0,
     assertion |-> Undefined, result |-> Undefined, error |-> "none"]

InitAdapter ==
    /\ clientChain \in ChainSample
    /\ adapters = [a \in AdapterIds |-> NoAdapter]
    /\ call = NoCall
    /\ httpCalls = 0
    /\ authCalls = 0

Ready(a) == adapters[a].state = "ready"

\* The first free slot.
FreeSlot(a) ==
    /\ adapters[a].state = "absent"
    /\ \A b \in AdapterIds : b < a => adapters[b].state # "absent"

\* The network client moves to another chain.
ChangeChain ==
    /\ \E c \in ChainSample \ {clientChain} : clientChain' = c
    /\ UNCHANGED <<adapters, call, httpCalls, authCalls>>

\* toPasskeyValidator is called with a key and awaits getChainId.
ToPasskeyValidator(a, k) ==
    /\ FreeSlot(a)
    /\ adapters' = [adapters EXCEPT ![a] =
            [state |-> "constructing", builder |-> "toPasskeyValidator",
             from |-> 0, chainId |-> 0, getChainIdCalls |-> 1,
             passkeyServerUrl |-> passkeyServerUrl,
             credentials |-> Text("include"),
             entryPoint |-> ENTRYPOINT_ADDRESS_V06,
             serializedEntryPoint |-> ENTRYPOINT_ADDRESS_V06,
             validatorAddress |-> GetValidatorAddress(ENTRYPOINT_ADDRESS_V06),
             pubKeyX |-> k.pubX, pubKeyY |-> k.pubY, credId |-> k.credId,
             authenticatorIdHash |-> k.authenticatorIdHash]]
    /\ httpCalls' = httpCalls + 1
    /\ UNCHANGED <<clientChain, call, authCalls>>

\* deserializePasskeyValidator is called with the serialized data of an
\* adapter and an entry point, and awaits getChainId.  User operations are
\* hashed with the entry point of the call, getSerializedData writes the one of
\* the serialized data.
DeserializePasskeyValidator(a, from, entryPointAddress) ==
    /\ FreeSlot(a)
    /\ Ready(from)
    /\ LET data == DeserializePasskeyValidatorData(GetSerializedData(from))
       IN  adapters' = [adapters EXCEPT ![a] =
            [state |-> "constructing", builder |-> "deserializePasskeyValidator",
             from |-> from, chainId |-> 0, getChainIdCalls |-> 1,
             passkeyServerUrl |-> data.passkeyServerUrl,
             credentials |-> data.credentials,
             entryPoint |-> entryPointAddress,
             serializedEntryPoint |-> data.entryPoint,
             validatorAddress |-> data.validatorAddress,
             pubKeyX |-> data.pubKeyX, pubKeyY |-> data.pubKeyY,
             credId |-> data.credId,
             authenticatorIdHash |-> data.authenticatorIdHash]]
    /\ httpCalls' = httpCalls + 1
    /\ UNCHANGED <<clientChain, call, authCalls>>

\* getChainId answers: the adapter is returned, bound to that chain id.
ChainIdArrives(a) ==
    /\ adapters[a].state = "constructing"
    /\ adapters' = [adapters EXCEPT ![a].state = "ready",
                                    ![a].chainId = clientChain]
    /\ UNCHANGED <<clientChain, call, httpCalls, authCalls>>

\* No operation is suspended at the authenticator.
Idle == call.pc # "awaitAuthenticator"

\* A faulty variant: the chain id is read from the client at every use.
ChainIdRefetched(a) == clientChain

\* The chain id an adapter's operations hash and encode with.
ChainIdOf(a) == adapters[a].chainId

\* A faulty variant: every adapter asks for the first adapter's credential.
AllowCredentialsOfFirst(a) ==
    <<[id |-> adapters[1].credId, type |-> "public-key"]>>

\* The credentials an adapter's assertion requests allow.
AllowCredentials(a) == <<[id |-> adapters[a].credId, type |-> "public-key"]>>

\* signMessageUsingWebAuthn up to the authenticator's invocation, for an
\* operation `op` with input `input` and, for the two hashing operations, the
\* hash `hash`.
StartSigning(a, op, input, hash, message) ==
    IF MessageContent(message) = Undefined
    THEN /\ call' = [op |-> op, adapter |-> a, pc |-> "threw", input |-> input,
                     hash |-> hash, options |-> Undefined, invoked |-> 0,
                     assertion |-> Undefined, result |-> Undefined,
                     error |-> "Unsupported message format"]
         /\ UNCHANGED authCalls
    ELSE /\ authCalls < MaxAuthCalls
         /\ call' = [op |-> op, adapter |-> a, pc |-> "awaitAuthenticator",
                     input |-> input, hash |-> hash,
                     options |-> AssertionOptions(MessageContent(message),
                                                  AllowCredentials(a)),
                     invoked |-> 1, assertion |-> Undefined,
                     result |-> Undefined, error |-> "none"]
         /\ authCalls' = authCalls + 1

\* account.signMessage({message}).
SignMessage(a, message) ==
    /\ Ready(a) /\ Idle
    /\ StartSigning(a, "signMessage", message, Undefined, message)
    /\ UNCHANGED <<clientChain, adapters, httpCalls>>

\* A faulty variant: the transaction is signed like a message.
SignTransactionSigns(a, transaction) ==
    /\ Ready(a) /\ Idle
    /\ StartSigning(a, "signTransaction", transaction, Undefined, HexStr(<<1, 0>>))
    /\ UNCHANGED <<clientChain, adapters, httpCalls>>

\* account.signTransaction: not supported.
SignTransaction(a, transaction) ==
    /\ Ready(a) /\ Idle
    /\ call' = [op |-> "signTransaction", adapter |-> a, pc |-> "threw",
                input |-> transaction, hash |-> Undefined, options |-> Undefined,
                invoked |-> 0, assertion |-> Undefined, result |-> Undefined,
                error |-> "SignTransactionNotSupportedBySmartAccount"]
    /\ UNCHANGED <<clientChain, adapters, httpCalls, authCalls>>

\* A faulty variant: the document is hashed and signed without validation.
SignTypedDataUnvalidated(a, typedData) ==
    /\ Ready(a) /\ Idle
    /\ StartSigning(a, "signTypedData", typedData, HashTypedData(typedData),
                    HashTypedData(typedData))
    /\ UNCHANGED <<clientChain, adapters, httpCalls>>

\* account.signTypedData: validate, hash, sign the hash as a message.
SignTypedData(a, typedData) ==
    /\ Ready(a) /\ Idle
    /\ IF ~typedData.valid
       THEN /\ call' = [op |-> "signTypedData", adapter |-> a, pc |-> "threw",
                        input |-> typedData, hash |-> Undefined,
                        options |-> Undefined, invoked |-> 0,
                        assertion |-> Undefined, result |-> Undefined,
                        error |-> "InvalidTypedData"]
            /\ UNCHANGED authCalls
       ELSE StartSigning(a, "signTypedData", typedData, HashTypedData(typedData),
                         HashTypedData(typedData))
    /\ UNCHANGED <<clientChain, adapters, httpCalls>>

\* A faulty variant: the operation is hashed with the signature it came with.
UserOperationHashAsGiven(a, userOperation) ==
    GetUserOperationHash(userOperation, adapters[a].entryPoint, ChainIdOf(a))

\* The hash signUserOperation signs.
UserOperationHashOf(a, userOperation) ==
    GetUserOperationHash([userOperation EXCEPT !.signature = "0x"],
                         adapters[a].entryPoint, ChainIdOf(a))

\* signUserOperation: hash the operation, sign {raw: hash} as a message.
SignUserOperation(a, userOperation) ==
    /\ Ready(a) /\ Idle
    /\ LET hash == UserOperationHashOf(a, userOperation)
       IN  StartSigning(a, "signUserOperation", userOperation, hash,
                        [tag |-> "object", raw |-> hash])
    /\ UNCHANGED <<clientChain, adapters, httpCalls>>

\* The authenticator answers the assertion request: the signature is encoded
\* and returned.
AssertionArrives(assertion) ==
    /\ call.pc = "awaitAuthenticator"
    /\ call' = [call EXCEPT !.pc = "returned",
                            !.assertion = assertion,
                            !.result = EncodedSignature(assertion,
                                                        ChainIdOf(call.adapter))]
    /\ UNCHANGED <<clientChain, adapters, httpCalls, authCalls>>

\* The authenticator rejects the assertion request.
AssertionRejected ==
    /\ call.pc = "awaitAuthenticator"
    /\ call' = [call EXCEPT !.pc = "threw", !.error = "AuthenticatorRejected"]
    /\ UNCHANGED <<clientChain, adapters, httpCalls, authCalls>>

\* The dummy signature an adapter answers with.
DummySignatureOf(a) ==
    IF adapters[a].builder = "toPasskeyValidator"
    THEN DummySignature
    ELSE DeserializedDummySignature

GetDummySignature(a) ==
    /\ Ready(a) /\ Idle
    /\ call' = [op |-> "getDummySignature", adapter |-> a, pc |-> "returned",
                input |-> Undefined, hash |-> Undefined, options |-> Undefined,
                invoked |-> 0, assertion |-> Undefined,
                result |-> DummySignatureOf(a), error |-> "none"]
    /\ UNCHANGED <<clientChain, adapters, httpCalls, authCalls>>

\* getIdentifier: the validator's address.
IdentifierOf(a) == adapters[a].validatorAddress

\* getNonceKey: the custom key if it is truthy, else 0; the adapter built by
\* deserializePasskeyValidator takes no key and answers 0.
NonceKeyOf(a, customNonceKey) ==
    IF adapters[a].builder = "toPasskeyValidator" /\ customNonceKey # 0
    THEN customNonceKey
    ELSE 0

\* A getter is called on an adapter and returns at once.
Getter(a, op, input, result) ==
    /\ Ready(a) /\ Idle
    /\ call' = [op |-> op, adapter |-> a, pc |-> "returned",
                input |-> input, hash |-> Undefined, options |-> Undefined,
                invoked |-> 0, assertion |-> Undefined,
                result |-> result, error |-> "none"]
    /\ UNCHANGED <<clientChain, adapters, httpCalls, authCalls>>

GetIdentifier(a) == Getter(a, "getIdentifier", Undefined, IdentifierOf(a))

CallGetEnableData(a) == Getter(a, "getEnableData", Undefined, GetEnableData(a))

GetNonceKey(a, customNonceKey) ==
    Getter(a, "getNonceKey", customNonceKey, NonceKeyOf(a, customNonceKey))

CallGetSerializedData(a) ==
    Getter(a, "getSerializedData", Undefined, GetSerializedData(a))

(***************************************************************************)
(* The page: handleRegister, handleLogin and createAccountAndClient        *)
(***************************************************************************)
HandlerIds == 1..MaxHandlers

NoHandler == [kind |-> "none", pc |-> "done", session |-> 0]

\* The dependencies of the polling effect, which are also what the interval's
\* callback closes over (stablecoinAddress never changes).
Deps ==
    [accountAddress |-> accountAddress, balance |-> balance,
     balanceDecimals |-> balanceDecimals, balanceFetched |-> balanceFetched]

\* The page after its first render and the first run of the effect: mounted,
\* with one interval that closed over the initial state.
InitPoll ==
    /\ view = "mounted"
    /\ balance = 0
    /\ balanceDecimals = 0
    /\ balanceFetched = FALSE
    /\ balanceOwner = 0
    /\ timers = {[accountAddress |-> 0, balance |-> 0, balanceDecimals |-> 0,
                  balanceFetched |-> FALSE]}
    /\ effectDeps = [accountAddress |-> 0, balance |-> 0, balanceDecimals |-> 0,
                     balanceFetched |-> FALSE]
    /\ balanceQueries = {}
    /\ lastTick = "none"

\* No client: the global kernelClient before the first assignment.
NoClient == [account |-> 0, session |-> 0]

\* handleSendUserOp has not been called.  An invocation records, until it
\* ends, what it read of the page's state and of the three globals, and the
\* calls it collected.
NoSend ==
    [pc |-> "idle", balance |-> 0, allowance |-> 0, calls |-> <<>>,
     approveBy |-> 0, allowanceOf |-> 0, encodedBy |-> 0,
     sentBy |-> NoClient, sponsoredBy |-> 0]

InitSend ==
    /\ isSendingUserOp = FALSE
    /\ sendOp = NoSend

InitPage ==
    /\ InitPoll
    /\ InitSend
    /\ isRegistering = FALSE
    /\ isLoggingIn = FALSE
    /\ isKernelClientReady = FALSE
    /\ accountAddress = 0
    /\ kernelAccount = 0
    /\ kernelClient = [account |-> 0, session |-> 0]
    /\ paymasterClient = 0
    /\ handlers = [h \in HandlerIds |-> NoHandler]
    /\ sessions = 0

\* The invocations of handleRegister and handleLogin that have not finished.
InFlight == {h \in HandlerIds : handlers[h].kind # "none"}

\* The Register and Login buttons are enabled.
CeremonyButtonsEnabled == view = "mounted" /\ ~(isRegistering \/ isLoggingIn)

At(h, kind, where) == handlers[h].kind = kind /\ handlers[h].pc = where

Goto(h, where) == handlers' = [handlers EXCEPT ![h].pc = where]

\* A click on Register: handleRegister sets isRegistering and awaits the
\* import of the browser library.
ClickRegister(h) ==
    /\ CeremonyButtonsEnabled
    /\ handlers[h].kind = "none"
    /\ sessions < MaxClicks
    /\ isRegistering' = TRUE
    /\ sessions' = sessions + 1
    /\ handlers' = [handlers EXCEPT ![h] =
            [kind |-> "register", pc |-> "import", session |-> sessions + 1]]
    /\ UNCHANGED <<isLoggingIn, isKernelClientReady, accountAddress,
                   kernelAccount, kernelClient, paymasterClient>>

\* A click on Login: handleLogin awaits Moralis.start.
ClickLogin(h) ==
    /\ CeremonyButtonsEnabled
    /\ handlers[h].kind = "none"
    /\ sessions < MaxClicks
    /\ sessions' = sessions + 1
    /\ handlers' = [handlers EXCEPT ![h] =
            [kind |-> "login", pc |-> "Moralis.start", session |-> sessions + 1]]
    /\ UNCHANGED <<isRegistering, isLoggingIn, isKernelClientReady,
                   accountAddress, kernelAccount, kernelClient, paymasterClient>>

\* Moralis.start resolves: handleLogin sets isLoggingIn and awaits the import.
MoralisStarted(h) ==
    /\ At(h, "login", "Moralis.start")
    /\ isLoggingIn' = TRUE
    /\ Goto(h, "import")
    /\ UNCHANGED <<isRegistering, isKernelClientReady, accountAddress,
                   kernelAccount, kernelClient, paymasterClient, sessions>>

\* The import resolves: toWebAuthnKey is called.
Imported(h) ==
    /\ handlers[h].kind # "none" /\ handlers[h].pc = "import"
    /\ Goto(h, "toWebAuthnKey")
    /\ UNCHANGED <<isRegistering, isLoggingIn, isKernelClientReady,
                   accountAddress, kernelAccount, kernelClient, paymasterClient,
                   sessions>>

\* toWebAuthnKey resolves: toPasskeyValidator is called.
KeyObtained(h) ==
    /\ handlers[h].kind # "none" /\ handlers[h].pc = "toWebAuthnKey"
    /\ Goto(h, "toPasskeyValidator")
    /\ UNCHANGED <<isRegistering, isLoggingIn, isKernelClientReady,
                   accountAddress, kernelAccount, kernelClient, paymasterClient,
                   sessions>>

\* toPasskeyValidator resolves: createAccountAndClient is called and awaits
\* createKernelAccount.
ValidatorBuilt(h) ==
    /\ handlers[h].kind # "none" /\ handlers[h].pc = "toPasskeyValidator"
    /\ Goto(h, "createKernelAccount")
    /\ UNCHANGED <<isRegistering, isLoggingIn, isKernelClientReady,
                   accountAddress, kernelAccount, kernelClient, paymasterClient,
                   sessions>>

\* createKernelAccount resolves: the global kernelAccount is assigned and
\* createZeroDevPaymasterClient is awaited.
KernelAccountCreated(h) ==
    /\ handlers[h].kind # "none" /\ handlers[h].pc = "createKernelAccount"
    /\ kernelAccount' = handlers[h].session
    /\ Goto(h, "createZeroDevPaymasterClient")
    /\ UNCHANGED <<isRegistering, isLoggingIn, isKernelClientReady,
                   accountAddress, kernelClient, paymasterClient, sessions>>

\* The paymaster client is there: the globals paymasterClient and kernelClient
\* are assigned, the client built over the global kernelAccount, and the page
\* is told the client is ready and the account's address.
PaymasterClientCreated(h) ==
    /\ handlers[h].kind # "none"
    /\ handlers[h].pc = "createZeroDevPaymasterClient"
    /\ paymasterClient' = handlers[h].session
    /\ kernelClient' = [account |-> kernelAccount, session |-> handlers[h].session]
    /\ isKernelClientReady' = TRUE
    /\ accountAddress' = kernelAccount
    /\ Goto(h, "createAccountAndClient")
    /\ UNCHANGED <<isRegistering, isLoggingIn, kernelAccount, sessions>>

\* createAccountAndClient has returned to handleRegister: isRegistering is
\* reset, and the handler runs to its end.
RegisterDone(h) ==
    /\ At(h, "register", "createAccountAndClient")
    /\ isRegistering' = FALSE
    /\ handlers' = [handlers EXCEPT ![h] = NoHandler]
    /\ UNCHANGED <<isLoggingIn, isKernelClientReady, accountAddress,
                   kernelAccount, kernelClient, paymasterClient, sessions>>

\* createAccountAndClient has returned to handleLogin: isLoggingIn is reset,
\* and fetchTransferHistory is awaited.
LoginDone(h) ==
    /\ At(h, "login", "createAccountAndClient")
    /\ isLoggingIn' = FALSE
    /\ Goto(h, "fetchTransferHistory")
    /\ UNCHANGED <<isRegistering, isKernelClientReady, accountAddress,
                   kernelAccount, kernelClient, paymasterClient, sessions>>

\* fetchTransferHistory resolves: handleLogin ends.
HistoryFetched(h) ==
    /\ At(h, "login", "fetchTransferHistory")
    /\ handlers' = [handlers EXCEPT ![h] = NoHandler]
    /\ UNCHANGED <<isRegistering, isLoggingIn, isKernelClientReady,
                   accountAddress, kernelAccount, kernelClient, paymasterClient,
                   sessions>>

\* The promise a handler awaits rejects: the handler ends there, nothing
\* catches the error.
AwaitRejects(h) ==
    /\ handlers[h].kind # "none"
    /\ handlers[h].pc # "createAccountAndClient"
    /\ handlers' = [handlers EXCEPT ![h] = NoHandler]
    /\ UNCHANGED <<isRegistering, isLoggingIn, isKernelClientReady,
                   accountAddress, kernelAccount, kernelClient, paymasterClient,
                   sessions>>

(***************************************************************************)
(* The page: the balance-polling effect                                    *)
(***************************************************************************)
\* What getBalance may answer: the token balance and the token's decimals.
BalanceSample == {0, 5}

TokenDecimals == 6

\* A faulty variant: the effect's cleanup leaves the interval running.
CleanupNothing(ts) == ts

\* The effect's cleanup: clearInterval of the interval the effect started.
Cleanup(ts) == {}

\* A faulty variant: the callback queries whatever address it closed over.
TickQueriesAlways(t) == TRUE

\* The callback of an interval goes on to getBalance if it closed over an
\* account address.
TickQueries(t) == t.accountAddress # 0

\* An interval fires: the callback returns at once without an address and
\* else calls getBalance for the address it closed over and awaits it.
Tick(t) ==
    /\ t \in timers
    /\ IF TickQueries(t)
       THEN /\ Cardinality(balanceQueries \cup {t.accountAddress}) <= MaxInFlight
            /\ balanceQueries' = balanceQueries \cup {t.accountAddress}
            /\ lastTick' = "queried"
       ELSE /\ lastTick' = "skipped"
            /\ UNCHANGED balanceQueries
    /\ UNCHANGED <<view, balance, balanceDecimals, balanceFetched, balanceOwner,
                   timers, effectDeps>>

\* getBalance answers: the callback sets balance, balanceDecimals and
\* balanceFetched.  The setters of a page that is no longer mounted do nothing.
BalanceArrives(q, value) ==
    /\ q \in balanceQueries
    /\ balanceQueries' = balanceQueries \ {q}
    /\ IF view = "mounted"
       THEN /\ balance' = value
            /\ balanceDecimals' = TokenDecimals
            /\ balanceFetched' = TRUE
            /\ balanceOwner' = q
       ELSE UNCHANGED <<balance, balanceDecimals, balanceFetched, balanceOwner>>
    /\ UNCHANGED <<view, timers, effectDeps, lastTick>>

\* getBalance rejects: the callback ends there.
BalanceFails(q) ==
    /\ q \in balanceQueries
    /\ balanceQueries' = balanceQueries \ {q}
    /\ UNCHANGED <<view, balance, balanceDecimals, balanceFetched, balanceOwner,
                   timers, effectDeps, lastTick>>

\* A render with changed dependencies has been committed: the cleanup of the
\* effect's last run is called and the effect runs again, starting an interval
\* that closes over the present state.
EffectReruns ==
    /\ view = "mounted"
    /\ effectDeps # Deps
    /\ timers' = Cleanup(timers) \cup {Deps}
    /\ effectDeps' = Deps
    /\ UNCHANGED <<view, balance, balanceDecimals, balanceFetched, balanceOwner,
                   balanceQueries, lastTick>>

\* The page is torn down: the cleanup of the effect's last run is called.
\* Handlers and getBalance calls in flight run on.
Unmount ==
    /\ view = "mounted"
    /\ view' = "unmounted"
    /\ timers' = Cleanup(timers)
    /\ UNCHANGED <<balance, balanceDecimals, balanceFetched, balanceOwner,
                   effectDeps, balanceQueries, lastTick>>

(***************************************************************************)
(* The page: handleSendUserOp                                              *)
(***************************************************************************)
\* The largest uint256, scaled down; approvals are for this amount.
MaxUint256 == 15

\* What the token contract may answer as the paymaster's allowance: the two
\* values around half the largest amount.
AllowanceSample == {MaxUint256 \div 2 - 1, MaxUint256 \div 2}

\* The Send UserOp button is enabled.
SendButtonEnabled ==
    view = "mounted" /\ ~(~isKernelClientReady \/ isSendingUserOp \/ ~balanceFetched)

\* A faulty variant: tokens are minted whatever the balance.
MintCallsAlways(cached, account) == <<[kind |-> "mint", to |-> account]>>

\* The mint call, pushed if the balance the page holds is below 1.
MintCalls(cached, account) ==
    IF cached < 1 THEN <<[kind |-> "mint", to |-> account]>> ELSE <<>>

\* The paymaster's approve call, pushed if the allowance is below half the
\* largest amount.
ApproveCalls(allowance, paymaster) ==
    IF allowance < MaxUint256 \div 2
    THEN <<[kind |-> "approve", to |-> paymaster]>>
    ELSE <<>>

\* The transfer call (destination and amount are not modelled).
TransferCall == [kind |-> "transfer", to |-> 0]

\* A click on Send UserOp: handleSendUserOp returns at once if no balance was
\* fetched; else it sets isSendingUserOp, collects the mint call for the
\* global kernelAccount and awaits the approve call of the global
\* paymasterClient.
ClickSend ==
    /\ SendButtonEnabled
    /\ IF ~balanceFetched
       THEN UNCHANGED <<isSendingUserOp, sendOp>>
       ELSE /\ isSendingUserOp' = TRUE
            /\ sendOp' = [NoSend EXCEPT
                    !.pc = "getERC20PaymasterApproveCall",
                    !.balance = balance,
                    !.calls = MintCalls(balance, kernelAccount),
                    !.approveBy = paymasterClient]

\* The approve call is there: the allowance of the global kernelAccount is
\* read from the token contract.
ApproveCallArrives ==
    /\ sendOp.pc = "getERC20PaymasterApproveCall"
    /\ sendOp' = [sendOp EXCEPT !.pc = "readContract",
                                !.allowanceOf = kernelAccount]
    /\ UNCHANGED isSendingUserOp

\* The allowance is there: the approve call is pushed if it is low, then the
\* transfer call; sendUserOperation of the global kernelClient is looked up
\* and the calls are handed to encodeCallData of the global kernelAccount.
AllowanceArrives(allowance) ==
    /\ sendOp.pc = "readContract"
    /\ sendOp' = [sendOp EXCEPT
            !.pc = "encodeCallData",
            !.allowance = allowance,
            !.calls = sendOp.calls \o ApproveCalls(allowance, sendOp.approveBy)
                        \o <<TransferCall>>,
            !.encodedBy = kernelAccount,
            !.sentBy = kernelClient]
    /\ UNCHANGED isSendingUserOp

\* The call data is there: the client looked up before sends the user
\* operation, sponsored by the global paymasterClient of that moment.
CallDataEncoded ==
    /\ sendOp.pc = "encodeCallData"
    /\ sendOp' = [sendOp EXCEPT !.pc = "sendUserOperation",
                                !.sponsoredBy = paymasterClient]
    /\ UNCHANGED isSendingUserOp

\* The bundler has accepted the user operation: its receipt is awaited.
UserOpSent ==
    /\ sendOp.pc = "sendUserOperation"
    /\ sendOp' = [sendOp EXCEPT !.pc = "waitForUserOperationReceipt"]
    /\ UNCHANGED isSendingUserOp

\* The receipt is there: isSendingUserOp is reset and fetchTransferHistory is
\* awaited.
ReceiptArrives ==
    /\ sendOp.pc = "waitForUserOperationReceipt"
    /\ isSendingUserOp' = FALSE
    /\ sendOp' = [sendOp EXCEPT !.pc = "fetchTransferHistory"]

\* fetchTransferHistory resolves: handleSendUserOp ends.
SendHistoryFetched ==
    /\ sendOp.pc = "fetchTransferHistory"
    /\ sendOp' = [NoSend EXCEPT !.pc = "done"]
    /\ UNCHANGED isSendingUserOp

\* The promise handleSendUserOp awaits rejects: the handler ends there,
\* nothing catches the error.
SendRejects ==
    /\ sendOp.pc \notin {"idle", "done", "failed"}
    /\ sendOp' = [NoSend EXCEPT !.pc = "failed"]
    /\ UNCHANGED isSendingUserOp

\* The page variables the polling effect leaves alone.
handlerVars ==
    <<isRegistering, isLoggingIn, isKernelClientReady, accountAddress,
      kernelAccount, kernelClient, paymasterClient, handlers, sessions>>

(***************************************************************************)
(* The specifications                                                      *)
(***************************************************************************)
\* The values of a part of the state that a specification leaves alone.
CeremonyIdle ==
    /\ mode = "register"
    /\ webAuthnKey = Undefined
    /\ pc = "called"
    /\ startOptions = NotYet
    /\ cred = NotYet
    /\ credId = Undefined
    /\ verifyResult = NotYet
    /\ ceremonyResult = Undefined
    /\ key = Undefined
    /\ error = "none"
    /\ trace = <<>>

AdapterIdle ==
    /\ clientChain = 11155111
    /\ adapters = [a \in AdapterIds |-> NoAdapter]
    /\ call = NoCall
    /\ httpCalls = 0
    /\ authCalls = 0

Init == InitCeremony /\ AdapterIdle /\ InitPage

Next ==
    \/ ReturnGivenKey /\ UNCHANGED <<adapterVars, pageVars>>
    \/ PostStart /\ UNCHANGED <<adapterVars, pageVars>>
    \/ StartFails /\ UNCHANGED <<adapterVars, pageVars>>
    \/ StartArrives /\ UNCHANGED <<adapterVars, pageVars>>
    \/ AuthenticatorRejects /\ UNCHANGED <<adapterVars, pageVars>>
    \/ AuthenticatorReturns /\ UNCHANGED <<adapterVars, pageVars>>
    \/ CompleteFails /\ UNCHANGED <<adapterVars, pageVars>>
    \/ CompleteArrives /\ UNCHANGED <<adapterVars, pageVars>>

Spec == Init /\ [][Next]_vars

\* The messages and the assertions of the runs that build and rebuild adapters:
\* a string, an object with `raw` and an object without, and an assertion with
\* s at each end of its range.
AdapterMessageSample ==
    {HexStr(<<1, 0>>),
     [tag |-> "object", raw |-> HexStr(<<1, 0>>)],
     [tag |-> "object", name |-> "noRaw"]}

AdapterAssertionSample ==
    {s \in AssertionSample : s.signature.s \in {1, CurveOrder - 1}}

InitAdapters == CeremonyIdle /\ InitAdapter /\ InitPage

NextAdapters ==
    \/ ChangeChain /\ UNCHANGED <<ceremonyVars, pageVars>>
    \/ \E a \in AdapterIds, k \in AdapterKeySample :
        ToPasskeyValidator(a, k) /\ UNCHANGED <<ceremonyVars, pageVars>>
    \/ \E a, from \in AdapterIds :
        DeserializePasskeyValidator(a, from, ENTRYPOINT_ADDRESS_V06)
            /\ UNCHANGED <<ceremonyVars, pageVars>>
    \/ \E a \in AdapterIds :
        ChainIdArrives(a) /\ UNCHANGED <<ceremonyVars, pageVars>>
    \/ \E a \in AdapterIds, m \in AdapterMessageSample :
        SignMessage(a, m) /\ UNCHANGED <<ceremonyVars, pageVars>>
    \/ \E a \in AdapterIds, t \in TransactionSample :
        SignTransaction(a, t) /\ UNCHANGED <<ceremonyVars, pageVars>>
    \/ \E a \in AdapterIds, t \in TypedDataSample :
        SignTypedData(a, t) /\ UNCHANGED <<ceremonyVars, pageVars>>
    \/ \E a \in AdapterIds, u \in UserOperationSample :
        SignUserOperation(a, u) /\ UNCHANGED <<ceremonyVars, pageVars>>
    \/ \E s \in AdapterAssertionSample :
        AssertionArrives(s) /\ UNCHANGED <<ceremonyVars, pageVars>>
    \/ AssertionRejected /\ UNCHANGED <<ceremonyVars, pageVars>>
    \/ \E a \in AdapterIds :
        GetDummySignature(a) /\ UNCHANGED <<ceremonyVars, pageVars>>

SpecAdapter == InitAdapters /\ [][NextAdapters]_vars

\* Adapters are built and rebuilt from serialized data, with every key and
\* entry point, and their getters are called between user operations.
RoundTripUserOperation == [callData |-> "callA", signature |-> "0x"]

RoundTripAssertion == CHOOSE s \in AdapterAssertionSample : s.signature.s = 1

NextRoundTrip ==
    \/ \E a \in AdapterIds, k \in AdapterKeySample :
        ToPasskeyValidator(a, k) /\ UNCHANGED <<ceremonyVars, pageVars>>
    \/ \E a, from \in AdapterIds, e \in EntryPointSample :
        DeserializePasskeyValidator(a, from, e)
            /\ UNCHANGED <<ceremonyVars, pageVars>>
    \/ \E a \in AdapterIds :
        ChainIdArrives(a) /\ UNCHANGED <<ceremonyVars, pageVars>>
    \/ \E a \in AdapterIds :
        SignUserOperation(a, RoundTripUserOperation)
            /\ UNCHANGED <<ceremonyVars, pageVars>>
    \/ AssertionArrives(RoundTripAssertion) /\ UNCHANGED <<ceremonyVars, pageVars>>
    \/ AssertionRejected /\ UNCHANGED <<ceremonyVars, pageVars>>
    \/ \E a \in AdapterIds :
        GetDummySignature(a) /\ UNCHANGED <<ceremonyVars, pageVars>>
    \/ \E a \in AdapterIds :
        GetIdentifier(a) /\ UNCHANGED <<ceremonyVars, pageVars>>
    \/ \E a \in AdapterIds :
        CallGetEnableData(a) /\ UNCHANGED <<ceremonyVars, pageVars>>
    \/ \E a \in AdapterIds, k \in NonceKeySample :
        GetNonceKey(a, k) /\ UNCHANGED <<ceremonyVars, pageVars>>
    \/ \E a \in AdapterIds :
        CallGetSerializedData(a) /\ UNCHANGED <<ceremonyVars, pageVars>>

SpecRoundTrip == InitAdapters /\ [][NextRoundTrip]_vars

\* Adapters of either builder, bound to different credentials, sign every
\* sample input.
SigningKeySample ==
    {[tag |-> "object", pubX |-> 1, pubY |-> 2, credId |-> c,
      authenticatorIdHash |-> AuthenticatorIdHash(c)] :
        c \in {B64Str(<<0, 16>>), B64Str(<<1, 0>>)}}

NextSigning ==
    \/ \E a \in AdapterIds, k \in SigningKeySample :
        ToPasskeyValidator(a, k) /\ UNCHANGED <<ceremonyVars, pageVars>>
    \/ \E a, from \in AdapterIds :
        DeserializePasskeyValidator(a, from, ENTRYPOINT_ADDRESS_V06)
            /\ UNCHANGED <<ceremonyVars, pageVars>>
    \/ \E a \in AdapterIds :
        ChainIdArrives(a) /\ UNCHANGED <<ceremonyVars, pageVars>>
    \/ \E a \in AdapterIds, m \in MessageSample :
        SignMessage(a, m) /\ UNCHANGED <<ceremonyVars, pageVars>>
    \/ \E a \in AdapterIds, t \in TypedDataSample :
        SignTypedData(a, t) /\ UNCHANGED <<ceremonyVars, pageVars>>
    \/ \E a \in AdapterIds, u \in UserOperationSample :
        SignUserOperation(a, u) /\ UNCHANGED <<ceremonyVars, pageVars>>
    \/ \E s \in AssertionSample :
        AssertionArrives(s) /\ UNCHANGED <<ceremonyVars, pageVars>>
    \/ AssertionRejected /\ UNCHANGED <<ceremonyVars, pageVars>>

SpecSigning == InitAdapters /\ [][NextSigning]_vars

InitPages == CeremonyIdle /\ AdapterIdle /\ InitPage

NextPage ==
    \/ \E h \in HandlerIds : ClickRegister(h) /\ UNCHANGED <<ceremonyVars, adapterVars, pollVars, sendVars>>
    \/ \E h \in HandlerIds : ClickLogin(h) /\ UNCHANGED <<ceremonyVars, adapterVars, pollVars, sendVars>>
    \/ \E h \in HandlerIds : MoralisStarted(h) /\ UNCHANGED <<ceremonyVars, adapterVars, pollVars, sendVars>>
    \/ \E h \in HandlerIds : Imported(h) /\ UNCHANGED <<ceremonyVars, adapterVars, pollVars, sendVars>>
    \/ \E h \in HandlerIds : KeyObtained(h) /\ UNCHANGED <<ceremonyVars, adapterVars, pollVars, sendVars>>
    \/ \E h \in HandlerIds : ValidatorBuilt(h) /\ UNCHANGED <<ceremonyVars, adapterVars, pollVars, sendVars>>
    \/ \E h \in HandlerIds :
        KernelAccountCreated(h) /\ UNCHANGED <<ceremonyVars, adapterVars, pollVars, sendVars>>
    \/ \E h \in HandlerIds :
        PaymasterClientCreated(h) /\ UNCHANGED <<ceremonyVars, adapterVars, pollVars, sendVars>>
    \/ \E h \in HandlerIds : RegisterDone(h) /\ UNCHANGED <<ceremonyVars, adapterVars, pollVars, sendVars>>
    \/ \E h \in HandlerIds : LoginDone(h) /\ UNCHANGED <<ceremonyVars, adapterVars, pollVars, sendVars>>
    \/ \E h \in HandlerIds : HistoryFetched(h) /\ UNCHANGED <<ceremonyVars, adapterVars, pollVars, sendVars>>
    \/ \E h \in HandlerIds : AwaitRejects(h) /\ UNCHANGED <<ceremonyVars, adapterVars, pollVars, sendVars>>

SpecPage == InitPages /\ [][NextPage]_vars

\* The page with its polling effect; ceremonies are run one at a time.
PollingHandlerIds == {1}

NextPolling ==
    \/ \E h \in PollingHandlerIds :
        ClickRegister(h) /\ UNCHANGED <<ceremonyVars, adapterVars, pollVars, sendVars>>
    \/ \E h \in PollingHandlerIds :
        ClickLogin(h) /\ UNCHANGED <<ceremonyVars, adapterVars, pollVars, sendVars>>
    \/ \E h \in PollingHandlerIds :
        MoralisStarted(h) /\ UNCHANGED <<ceremonyVars, adapterVars, pollVars, sendVars>>
    \/ \E h \in PollingHandlerIds :
        Imported(h) /\ UNCHANGED <<ceremonyVars, adapterVars, pollVars, sendVars>>
    \/ \E h \in PollingHandlerIds :
        KeyObtained(h) /\ UNCHANGED <<ceremonyVars, adapterVars, pollVars, sendVars>>
    \/ \E h \in PollingHandlerIds :
        ValidatorBuilt(h) /\ UNCHANGED <<ceremonyVars, adapterVars, pollVars, sendVars>>
    \/ \E h \in PollingHandlerIds :
        KernelAccountCreated(h) /\ UNCHANGED <<ceremonyVars, adapterVars, pollVars, sendVars>>
    \/ \E h \in PollingHandlerIds :
        PaymasterClientCreated(h)
            /\ UNCHANGED <<ceremonyVars, adapterVars, pollVars, sendVars>>
    \/ \E h \in PollingHandlerIds :
        RegisterDone(h) /\ UNCHANGED <<ceremonyVars, adapterVars, pollVars, sendVars>>
    \/ \E h \in PollingHandlerIds :
        LoginDone(h) /\ UNCHANGED <<ceremonyVars, adapterVars, pollVars, sendVars>>
    \/ \E h \in PollingHandlerIds :
        HistoryFetched(h) /\ UNCHANGED <<ceremonyVars, adapterVars, pollVars, sendVars>>
    \/ \E h \in PollingHandlerIds :
        AwaitRejects(h) /\ UNCHANGED <<ceremonyVars, adapterVars, pollVars, sendVars>>
    \/ \E t \in timers :
        Tick(t) /\ UNCHANGED <<ceremonyVars, adapterVars, handlerVars, sendVars>>
    \/ \E q \in balanceQueries, value \in BalanceSample :
        BalanceArrives(q, value)
            /\ UNCHANGED <<ceremonyVars, adapterVars, handlerVars, sendVars>>
    \/ \E q \in balanceQueries :
        BalanceFails(q) /\ UNCHANGED <<ceremonyVars, adapterVars, handlerVars, sendVars>>
    \/ EffectReruns /\ UNCHANGED <<ceremonyVars, adapterVars, handlerVars, sendVars>>
    \/ Unmount /\ UNCHANGED <<ceremonyVars, adapterVars, handlerVars, sendVars>>

SpecPolling == InitPages /\ [][NextPolling]_vars

\* The page with handleSendUserOp: registrations one at a time (handleLogin
\* runs createAccountAndClient the same way), the polling effect on a page that
\* stays mounted, and user operations.
NextSend ==
    \/ \E h \in PollingHandlerIds :
        ClickRegister(h) /\ UNCHANGED <<ceremonyVars, adapterVars, pollVars, sendVars>>
    \/ \E h \in PollingHandlerIds :
        Imported(h) /\ UNCHANGED <<ceremonyVars, adapterVars, pollVars, sendVars>>
    \/ \E h \in PollingHandlerIds :
        KeyObtained(h) /\ UNCHANGED <<ceremonyVars, adapterVars, pollVars, sendVars>>
    \/ \E h \in PollingHandlerIds :
        ValidatorBuilt(h) /\ UNCHANGED <<ceremonyVars, adapterVars, pollVars, sendVars>>
    \/ \E h \in PollingHandlerIds :
        KernelAccountCreated(h)
            /\ UNCHANGED <<ceremonyVars, adapterVars, pollVars, sendVars>>
    \/ \E h \in PollingHandlerIds :
        PaymasterClientCreated(h)
            /\ UNCHANGED <<ceremonyVars, adapterVars, pollVars, sendVars>>
    \/ \E h \in PollingHandlerIds :
        RegisterDone(h) /\ UNCHANGED <<ceremonyVars, adapterVars, pollVars, sendVars>>
    \/ \E h \in PollingHandlerIds :
        AwaitRejects(h) /\ UNCHANGED <<ceremonyVars, adapterVars, pollVars, sendVars>>
    \/ \E t \in timers :
        Tick(t) /\ UNCHANGED <<ceremonyVars, adapterVars, handlerVars, sendVars>>
    \/ \E q \in balanceQueries, value \in BalanceSample :
        BalanceArrives(q, value)
            /\ UNCHANGED <<ceremonyVars, adapterVars, handlerVars, sendVars>>
    \/ EffectReruns /\ UNCHANGED <<ceremonyVars, adapterVars, handlerVars, sendVars>>
    \/ ClickSend /\ UNCHANGED <<ceremonyVars, adapterVars, handlerVars, pollVars>>
    \/ ApproveCallArrives
            /\ UNCHANGED <<ceremonyVars, adapterVars, handlerVars, pollVars>>
    \/ \E allowance \in AllowanceSample :
        AllowanceArrives(allowance)
            /\ UNCHANGED <<ceremonyVars, adapterVars, handlerVars, pollVars>>
    \/ CallDataEncoded /\ UNCHANGED <<ceremonyVars, adapterVars, handlerVars, pollVars>>
    \/ UserOpSent /\ UNCHANGED <<ceremonyVars, adapterVars, handlerVars, pollVars>>
    \/ ReceiptArrives /\ UNCHANGED <<ceremonyVars, adapterVars, handlerVars, pollVars>>
    \/ SendHistoryFetched
            /\ UNCHANGED <<ceremonyVars, adapterVars, handlerVars, pollVars>>
    \/ SendRejects /\ UNCHANGED <<ceremonyVars, adapterVars, handlerVars, pollVars>>

SpecSend == InitPages /\ [][NextSend]_vars

(***************************************************************************)
(* Properties of the page (SpecPage)                                       *)
(***************************************************************************)
\* C1: at most one ceremony is in flight at any time: while an invocation of
\* handleRegister or handleLogin has not finished, no second one is started.
OneCeremonyAtATime == Cardinality(InFlight) <= 1

(***************************************************************************)
(* Properties of the ceremony (Spec)                                       *)
(***************************************************************************)
\* C2: the authenticatorIdHash of every key toWebAuthnKey returns is the hash
\* of the byte decoding of that key's credential id.
HashIsOfCredId ==
    key # Undefined =>
        key.authenticatorIdHash
            = Keccak256(Uint8ArrayToHexString(B64ToBytes(key.credId)))

\* The complete response does not verify the ceremony.
Unverified ==
    /\ verifyResult # NotYet
    /\ \/ verifyResult = Null
       \/ mode = "register" /\ verifyResult.verified \in {Undefined, Bool(FALSE)}
       \/ mode = "login" /\ verifyResult.accessToken \in {Undefined, EmptyString}

\* C3: a ceremony whose complete response is not verified fails and yields no
\* key, whatever public-key fields the response carries.
UnverifiedCeremonyFails ==
    Unverified =>
        /\ pc = "failed"
        /\ ceremonyResult = Undefined
        /\ key = Undefined

\* A login whose complete response has both coordinates but no accessToken,
\* after the authenticator returned a credential with an id, has failed.
UnverifiedWithKeysReached ==
    /\ mode = "login"
    /\ pc = "failed"
    /\ error = "Login not verified"
    /\ verifyResult # Null
    /\ verifyResult.accessToken = Undefined
    /\ verifyResult.publicKeyX = HexStr(<<1>>)
    /\ verifyResult.publicKeyY = HexStr(<<1, 0>>)
    /\ credId \in CredIdSample

\* One of the three results is absent or empty.
Absent(v) == v \in {Undefined, EmptyString}

\* C4: whenever loginOrRegisterWithWebAuthn returns, publicKeyX, publicKeyY
\* and credId are all present and non-empty; when one of them is absent after
\* a verified complete response, the ceremony fails and returns nothing.
ResultIsComplete ==
    /\ ceremonyResult # Undefined =>
        /\ ~Absent(ceremonyResult.publicKeyX)
        /\ ~Absent(ceremonyResult.publicKeyY)
        /\ ~Absent(ceremonyResult.credId)
    /\ (/\ verifyResult # NotYet
        /\ ~Unverified
        /\ \/ Absent(verifyResult.publicKeyX)
           \/ Absent(verifyResult.publicKeyY)
           \/ Absent(credId))
       => (pc = "failed" /\ ceremonyResult = Undefined /\ key = Undefined)

\* A verified register/complete response that has publicKeyX and no
\* publicKeyY has made the ceremony fail.
MissingCoordinateReached ==
    /\ mode = "register"
    /\ pc = "failed"
    /\ verifyResult # NotYet
    /\ ~Unverified
    /\ verifyResult.publicKeyX = HexStr(<<1>>)
    /\ verifyResult.publicKeyY = Undefined
    /\ credId \in CredIdSample
    /\ error = "No public key returned from registration credential"

\* The start response lacks `options` or `requestId`.
MalformedStart ==
    /\ startOptions # NotYet
    /\ \/ startOptions = Null
       \/ Absent(startOptions.options)
       \/ Absent(startOptions.requestId)

\* C5: a start response without `options` or `requestId`, or a failed HTTP
\* call, is fatal: the ceremony does not return and toWebAuthnKey gives no
\* key, whatever is answered afterwards.
MalformedStartIsFatal ==
    (MalformedStart \/ error = "NetworkFailure") =>
        (pc # "returned" /\ ceremonyResult = Undefined /\ key = Undefined)

\* C6: the steps of a ceremony come in a fixed order: the start endpoint is
\* POSTed first, the authenticator is invoked after the start response has
\* arrived and with its options, and the complete endpoint is POSTed after the
\* authenticator has returned, with the credential it returned and the
\* requestId of the start response.
CeremonyOrder ==
    /\ Len(trace) <= 3
    /\ Len(trace) >= 1 =>
        /\ trace[1].ev = "fetch"
        /\ trace[1].target = StartUrl(mode)
    /\ Len(trace) >= 2 =>
        /\ startOptions # NotYet
        /\ trace[2].ev = "signWithAuthenticator"
        /\ trace[2].payload = startOptions.options
    /\ Len(trace) >= 3 =>
        /\ cred # NotYet
        /\ trace[3].ev = "fetch"
        /\ trace[3].target = CompleteUrl(mode)
        /\ trace[3].payload.requestId = startOptions.requestId
        /\ IF mode = "login"
           THEN trace[3].payload.authenticationResponse = cred
           ELSE trace[3].payload.registrationResponse = cred
    /\ (startOptions = NotYet) => Len(trace) <= 1
    /\ (cred = NotYet) => Len(trace) <= 2
    /\ (pc = "returned" /\ webAuthnKey = Undefined) => Len(trace) = 3

\* A ceremony has run through its three steps and returned, with the second
\* of the sampled options and request ids.
FullCeremonyReached ==
    /\ pc = "returned"
    /\ Len(trace) = 3
    /\ startOptions.options = Obj("optionsB")
    /\ startOptions.requestId = Text("req2")

\* C7 as stated: the key of a successful register ceremony has the
\* coordinates and the credentialId of the register/complete response, and the
\* hash of the decoding of that credentialId.
RegisterKeyIsOfResponse ==
    (mode = "register" /\ pc = "returned" /\ webAuthnKey = Undefined) =>
        /\ key.pubX = DigitsToNat(verifyResult.publicKeyX.body, 16)
        /\ key.pubY = DigitsToNat(verifyResult.publicKeyY.body, 16)
        /\ key.credId = verifyResult.credentialId
        /\ key.authenticatorIdHash
            = Keccak256(Uint8ArrayToHexString(B64ToBytes(verifyResult.credentialId)))

\* C7 amended: the key of a successful register ceremony has the coordinates
\* of the register/complete response, the id of the credential the
\* authenticator returned, and the hash of the decoding of that id.
RegisterKeyIsOfCredential ==
    (mode = "register" /\ pc = "returned" /\ webAuthnKey = Undefined) =>
        /\ key.pubX = DigitsToNat(verifyResult.publicKeyX.body, 16)
        /\ key.pubY = DigitsToNat(verifyResult.publicKeyY.body, 16)
        /\ key.credId = cred.id
        /\ key.authenticatorIdHash
            = Keccak256(Uint8ArrayToHexString(B64ToBytes(cred.id)))

\* A register ceremony has succeeded with distinct coordinates and a
\* credentialId in the response that is not the authenticator's.
RegisterSucceededReached ==
    /\ mode = "register"
    /\ pc = "returned"
    /\ webAuthnKey = Undefined
    /\ verifyResult.publicKeyX = HexStr(<<1>>)
    /\ verifyResult.publicKeyY = HexStr(<<1, 0>>)
    /\ verifyResult.credentialId = B64Str(<<0, 16>>)
    /\ cred.id = B64Str(<<0, 0>>)
    /\ key.pubX = 1
    /\ key.pubY = 16

(***************************************************************************)
(* Properties of the adapters (SpecAdapter)                                *)
(***************************************************************************)
SignOperations == {"signMessage", "signTypedData", "signUserOperation"}

\* C8: the chain id of an adapter is fixed at construction: getChainId is
\* called once per adapter, the chain id the adapter holds never changes, and
\* every user-operation hash and usePrecompiled flag is computed from it,
\* whatever chain the network client is on by then.
ChainIdFixedAtConstruction ==
    /\ [](/\ \A a \in AdapterIds :
              adapters[a].state # "absent" => adapters[a].getChainIdCalls = 1
          /\ call.op = "signUserOperation" =>
              call.hash = GetUserOperationHash(
                              [call.input EXCEPT !.signature = "0x"],
                              adapters[call.adapter].entryPoint,
                              adapters[call.adapter].chainId)
          /\ (call.op \in SignOperations /\ call.pc = "returned") =>
              call.result.usePrecompiled
                  = (adapters[call.adapter].chainId \in RIP7212SupportedNetworks))
    /\ [][\A a \in AdapterIds :
              adapters[a].state = "ready" =>
                  adapters'[a].chainId = adapters[a].chainId]_vars

\* A user operation has been signed by an adapter built on a chain with the
\* precompile, after the network client moved to a chain without it.
SignedAfterChainChangeReached ==
    /\ call.op = "signUserOperation"
    /\ call.pc = "returned"
    /\ adapters[call.adapter].chainId = 137
    /\ clientChain = 11155111
    /\ call.result.usePrecompiled = TRUE

\* C9: signTransaction fails for every input, on adapters of both builders,
\* without an HTTP request and without invoking the authenticator, and leaves
\* the adapter as it was.
SignTransactionAlwaysFails ==
    [][(call'.op = "signTransaction" /\ call' # call) =>
            /\ call'.pc = "threw"
            /\ call'.error = "SignTransactionNotSupportedBySmartAccount"
            /\ call'.result = Undefined
            /\ httpCalls' = httpCalls
            /\ authCalls' = authCalls
            /\ adapters' = adapters]_vars

\* signTransaction has been called on a deserialized adapter.
SignTransactionCalledReached ==
    /\ call.op = "signTransaction"
    /\ call.pc = "threw"
    /\ adapters[call.adapter].builder = "deserializePasskeyValidator"
    /\ call.input.value = 1

\* C10: getDummySignature returns one fixed value on every adapter and every
\* call, with responseTypeLocation 0 and usePrecompiled false.
DummySignatureIsFixed ==
    call.op = "getDummySignature" =>
        /\ call.result = DummySignature
        /\ call.result.responseTypeLocation = 0
        /\ call.result.usePrecompiled = FALSE

(***************************************************************************)
(* Properties of serialization (SpecRoundTrip)                             *)
(***************************************************************************)
Deserialized(a) == adapters[a].builder = "deserializePasskeyValidator"

RebuiltAdapterIsEquivalent ==
    \A b \in AdapterIds :
        (Deserialized(b) /\ Ready(b)) =>
            LET a == adapters[b].from
            IN  /\ IdentifierOf(b) = IdentifierOf(a)
                /\ GetEnableData(b) = GetEnableData(a)
                /\ DummySignatureOf(b) = DummySignatureOf(a)
                /\ \A k \in NonceKeySample : NonceKeyOf(b, k) = NonceKeyOf(a, k)
                /\ GetSerializedData(b) = GetSerializedData(a)
                /\ adapters[b].entryPoint = adapters[a].entryPoint

AssertionRequestIsBound ==
    (call.op \in SignOperations /\ call.invoked > 0) =>
        /\ call.options.allowCredentials
                = <<[id |-> adapters[call.adapter].credId, type |-> "public-key"]>>
        /\ call.options.userVerification = "required"

\* The authenticator has been invoked for an adapter bound to another
\* credential than the first adapter's.
SecondCredentialRequestedReached ==
    /\ call.op \in SignOperations
    /\ call.pc = "awaitAuthenticator"
    /\ call.invoked = 1
    /\ adapters[call.adapter].credId # adapters[1].credId

\* C15: signTypedData validates the document first.  For a document that
\* fails validation it fails without invoking the authenticator; for a valid
\* one the authenticator is invoked once, with the options signMessage builds
\* for the document's hash, and the result is the signature signMessage
\* returns for that hash and assertion.
TypedDataValidatedFirst ==
    call.op = "signTypedData" =>
        IF ~call.input.valid
        THEN /\ call.pc = "threw"
             /\ call.error = "InvalidTypedData"
             /\ call.invoked = 0
             /\ call.options = Undefined
             /\ call.result = Undefined
        ELSE /\ call.invoked = 1
             /\ call.hash = HashTypedData(call.input)
             /\ call.options = AssertionOptions(MessageContent(call.hash),
                                                AllowCredentials(call.adapter))
             /\ call.options.challenge = ChallengeOf(HashTypedData(call.input))
             /\ call.pc = "returned" =>
                    call.result = EncodedSignature(call.assertion,
                                                   ChainIdOf(call.adapter))

\* signTypedData has returned the signature of a valid document.
TypedDataSignedReached ==
    /\ call.op = "signTypedData"
    /\ call.pc = "returned"
    /\ call.input.valid
    /\ call.invoked = 1
    /\ call.result.s = CurveOrder \div 2

\* C16: the hash signUserOperation signs is that of the operation with its
\* signature field set to "0x", over the adapter's entry point and the chain
\* id fixed at construction; operations that differ in the signature field
\* only have the same hash, and the challenge is that of the hash.
SignatureFieldIgnored ==
    call.op = "signUserOperation" =>
        /\ call.hash = GetUserOperationHash(
                            [call.input EXCEPT !.signature = "0x"],
                            adapters[call.adapter].entryPoint,
                            adapters[call.adapter].chainId)
        /\ \A u \in UserOperationSample :
                u.callData = call.input.callData =>
                    UserOperationHashOf(call.adapter, u) = call.hash
        /\ call.invoked > 0 => call.options.challenge = ChallengeOf(call.hash)

\* The authenticator has been invoked for a user operation that came with a
\* signature.
SignedOperationHashedReached ==
    /\ call.op = "signUserOperation"
    /\ call.pc = "awaitAuthenticator"
    /\ call.input.signature = "0xsigned"
    /\ call.options.challenge = ChallengeOf(call.hash)

\* A message that is neither a string nor an object whose `raw` is a string
\* or a byte array.
Unsupported(message) ==
    /\ message.tag # "string"
    /\ \/ "raw" \notin DOMAIN message
       \/ message.raw.tag \notin {"string", "Uint8Array"}

\* C17: signMessage of a message of no supported shape fails with
\* "Unsupported message format": the authenticator is not invoked, no options
\* are built and nothing is returned.
UnsupportedMessageFails ==
    (call.op = "signMessage" /\ Unsupported(call.input)) =>
        /\ call.pc = "threw"
        /\ call.error = "Unsupported message format"
        /\ call.invoked = 0
        /\ call.options = Undefined
        /\ call.assertion = Undefined
        /\ call.result = Undefined

\* signMessage has been called with an object whose `raw` is a number.
NumberRawRejectedReached ==
    /\ call.op = "signMessage"
    /\ call.pc = "threw"
    /\ "raw" \in DOMAIN call.input
    /\ call.input.raw.tag = "number"
    /\ authCalls = 0

\* The bytes a message of a supported shape denotes.
BytesDenoted(message) ==
    IF message.tag = "string" THEN HexDigitsToBytes(message.body)
    ELSE IF message.raw.tag = "string" THEN HexDigitsToBytes(message.raw.body)
    ELSE message.raw.bytes

\* C18: for a message of a supported shape (a hex string with or without
\* 0x, an object with a hex `raw`, an object with a byte-array `raw`) the
\* challenge handed to the authenticator is the base64url text of the bytes
\* the message denotes, so that the shapes of the same bytes have the same
\* challenge.
ChallengeIsOfDenotedBytes ==
    (call.op = "signMessage" /\ ~Unsupported(call.input) /\ call.invoked > 0) =>
        call.options.challenge = Base64FromArrayBuffer(BytesDenoted(call.input))

\* The same with the byte-array shape left out: what the code does keep.
HexChallengeIsOfDenotedBytes ==
    (/\ call.op = "signMessage"
     /\ ~Unsupported(call.input)
     /\ call.invoked > 0
     /\ (call.input.tag = "string" \/ call.input.raw.tag = "string")) =>
        call.options.challenge = Base64FromArrayBuffer(BytesDenoted(call.input))

(***************************************************************************)
(* Properties of the polling effect (SpecPolling)                          *)
(***************************************************************************)
\* C19: a tick of an interval whose callback knows no account address issues
\* no balance query and leaves balance, balanceDecimals and balanceFetched as
\* they are; no query without an address is ever in flight.
TickWithoutAddressDoesNothing ==
    /\ [](0 \notin balanceQueries)
    /\ [][\A t \in timers :
              (t.accountAddress = 0 /\ Tick(t)) =>
                  UNCHANGED <<balance, balanceDecimals, balanceFetched,
                              balanceOwner, balanceQueries>>]_vars

\* An interval has ticked before any account address was known, while a
\* ceremony was on its way.
TickBeforeLoginReached ==
    /\ lastTick = "skipped"
    /\ accountAddress = 0
    /\ InFlight # {}
    /\ balanceFetched = FALSE
    /\ balanceQueries = {}

\* C20: at any time at most one polling interval is active, whatever changes
\* of balance, balanceDecimals, balanceFetched and accountAddress re-ran the
\* effect, and after the page is torn down none is.
AtMostOneTimer ==
    /\ Cardinality(timers) <= 1
    /\ view = "unmounted" => timers = {}

\* The page has been torn down after the effect re-ran for an account address
\* and for a fetched balance.
TornDownAfterRerunsReached ==
    /\ view = "unmounted"
    /\ timers = {}
    /\ effectDeps.accountAddress # 0
    /\ effectDeps.balanceFetched
    /\ effectDeps.balance = 5

(***************************************************************************)
(* More properties of the ceremony (Spec)                                  *)
(***************************************************************************)
\* How many times the ceremony has POSTed to a URL.
Requests(url) ==
    Cardinality({i \in 1..Len(trace) :
                    trace[i].ev = "fetch" /\ trace[i].target = url})

\* How many times the ceremony has invoked the authenticator.
Invocations ==
    Cardinality({i \in 1..Len(trace) : trace[i].ev = "signWithAuthenticator"})

\* C21: a ceremony does not retry.  The start endpoint is requested at most
\* once, the authenticator invoked at most once and the complete endpoint
\* requested at most once, two requests in all when the ceremony succeeds; a
\* failed ceremony has thrown an error, returned nothing, and takes no further
\* step.  (A SyntaxError is thrown by toWebAuthnKey, after the ceremony has
\* returned.)
NoCeremonyRetries ==
    /\ [](/\ Requests(StartUrl(mode)) <= 1
          /\ Invocations <= 1
          /\ Requests(CompleteUrl(mode)) <= 1
          /\ Requests(StartUrl(mode)) + Requests(CompleteUrl(mode)) <= 2
          /\ (pc = "returned" /\ webAuthnKey = Undefined) =>
                /\ Requests(StartUrl(mode)) = 1
                /\ Invocations = 1
                /\ Requests(CompleteUrl(mode)) = 1
          /\ pc = "failed" =>
                /\ error # "none"
                /\ key = Undefined
                /\ error # "SyntaxError" => ceremonyResult = Undefined)
    /\ [][pc = "failed" => UNCHANGED <<pc, trace, error, key>>]_vars

\* A ceremony has failed at the authenticator, after one request.
FailedAtAuthenticatorReached ==
    /\ pc = "failed"
    /\ error = "AuthenticatorRejected"
    /\ Requests(StartUrl(mode)) = 1
    /\ Invocations = 1
    /\ Requests(CompleteUrl(mode)) = 0

(***************************************************************************)
(* Properties of handleSendUserOp (SpecSend)                               *)
(***************************************************************************)
\* The runs of createAccountAndClient whose globals the invocation of
\* handleSendUserOp has read so far.
SessionsRead ==
    ({sendOp.calls[i].to : i \in 1..Len(sendOp.calls)}
        \cup {sendOp.approveBy, sendOp.allowanceOf, sendOp.encodedBy,
              sendOp.sentBy.account, sendOp.sentBy.session, sendOp.sponsoredBy})
    \ {0}

\* C22: the kernelAccount, kernelClient and paymasterClient an invocation of
\* handleSendUserOp reads all come from one run of createAccountAndClient,
\* whatever handleRegister or handleLogin is running meanwhile.
SendUsesOneSession == Cardinality(SessionsRead) <= 1

\* No invocation of handleRegister, handleLogin or handleSendUserOp is running.
NoHandlerRunning ==
    InFlight = {} /\ sendOp.pc \in {"idle", "done", "failed"}

\* C23: whenever handleRegister, handleLogin and handleSendUserOp have
\* finished, by success or by the failure of any step, isRegistering,
\* isLoggingIn and isSendingUserOp are false again.
BusyFlagsReleased ==
    NoHandlerRunning => ~isRegistering /\ ~isLoggingIn /\ ~isSendingUserOp

(***************************************************************************)
(* Properties of the cached balance (SpecPolling)                          *)
(***************************************************************************)
\* C24: whenever balanceFetched is true, balance and balanceDecimals are the
\* answer to a getBalance query made for the present accountAddress.
BalanceBelongsToAccount == balanceFetched => balanceOwner = accountAddress

(***************************************************************************)
(* Properties of the call list of handleSendUserOp (SpecSend)              *)
(***************************************************************************)
\* handleSendUserOp has completed its call list.
CallsSubmitted ==
    sendOp.pc \in {"encodeCallData", "sendUserOperation",
                   "waitForUserOperationReceipt", "fetchTransferHistory"}

\* The call list is: a mint call iff the balance the handler saw is below 1,
\* then the approve call iff the allowance read is below half the largest
\* amount, then one transfer call.
CallListInOrder ==
    LET calls == sendOp.calls
        n == Len(calls)
        mint == sendOp.balance < 1
        approve == sendOp.allowance < MaxUint256 \div 2
    IN  /\ n = (IF mint THEN 1 ELSE 0) + (IF approve THEN 1 ELSE 0) + 1
        /\ calls[n].kind = "transfer"
        /\ mint => calls[1].kind = "mint"
        /\ approve => calls[n - 1].kind = "approve"

\* C25: handleSendUserOp sends nothing while balanceFetched is false;
\* otherwise the call list it submits is a mint call iff the cached balance is
\* below 1, then the approve call iff the allowance is below maxUint256 / 2,
\* then exactly one transfer call, always present and always last.
SendCallList ==
    /\ [](sendOp.pc \notin {"idle", "done", "failed"} => balanceFetched)
    /\ [](CallsSubmitted => CallListInOrder)
    /\ [][~balanceFetched => UNCHANGED <<sendOp, isSendingUserOp>>]_vars

\* A user operation with a mint, an approve and a transfer call is being sent.
MintApproveTransferSentReached ==
    /\ sendOp.pc = "sendUserOperation"
    /\ sendOp.balance = 0
    /\ sendOp.allowance = MaxUint256 \div 2 - 1
    /\ Len(sendOp.calls) = 3

====
